---------------------------- MODULE Spec2Model ----------------------------
(***************************************************************************)
(* Model of docs/skills/youtube-shorts-creator/scripts/chunk_text.py:      *)
(* split_sentences, chunk_text and the command-line entry point main.      *)
(*                                                                         *)
(* A Python str is a sequence of one-character strings.  A list is a       *)
(* sequence.  An optional command-line argument is a record                *)
(* [given |-> BOOLEAN, val |-> str]; argparse leaves it None when the      *)
(* option is absent (given = FALSE).                                       *)
(***************************************************************************)
EXTENDS Integers, Sequences, FiniteSets, TLC

(***************************************************************************)
(* Bounds of the model.                                                    *)
(***************************************************************************)
MaxToks == 5        \* tokens (words) per generated input text
MaxMin == 2         \* --min ranges over 0..MaxMin
MaxMax == 2         \* --max ranges over 0..MaxMax
MaxFiles == 11      \* words of the longest generated text (one file each)
MaxSplitToks == 3   \* tokens per generated text of the punctuation runs

(***************************************************************************)
(* Characters.                                                             *)
(***************************************************************************)
Whitespace == {" ", "\n", "\t"}
\* mutant: the character class of line 11 without "?"
TerminalNoQuestion == {".", "!"}

Terminal == {".", "!", "?"}

IsSpace(c) == c \in Whitespace

Min(a, b) == IF a <= b THEN a ELSE b

(***************************************************************************)
(* str methods and re functions used by the script.                        *)
(***************************************************************************)
RECURSIVE LStrip(_)
LStrip(s) ==
    IF s # <<>> /\ IsSpace(Head(s)) THEN LStrip(Tail(s)) ELSE s

RECURSIVE RStrip(_)
RStrip(s) ==
    IF s # <<>> /\ IsSpace(s[Len(s)]) THEN RStrip(SubSeq(s, 1, Len(s) - 1)) ELSE s

\* str.strip()
Strip(s) == RStrip(LStrip(s))

\* re.sub(r"\s+", " ", s): every maximal whitespace run becomes one space
RECURSIVE CollapseWhitespace(_)
CollapseWhitespace(s) ==
    IF s = <<>> THEN <<>>
    ELSE IF IsSpace(Head(s)) THEN <<" ">> \o CollapseWhitespace(LStrip(Tail(s)))
    ELSE <<Head(s)>> \o CollapseWhitespace(Tail(s))

\* re.split(r"(?<=[.!?])\s+", s): scanning left to right from position i with
\* the segment cur open; a match is a maximal whitespace run whose preceding
\* character is a terminal mark.  The segment after the last match is always
\* appended (it is "" when the text ends with a match).
RECURSIVE ReSplitFrom(_, _, _)
ReSplitFrom(s, i, cur) ==
    IF i > Len(s) THEN <<cur>>
    ELSE IF IsSpace(s[i]) /\ i > 1 /\ s[i - 1] \in Terminal
         THEN LET rest == LStrip(SubSeq(s, i, Len(s)))
              IN  <<cur>> \o ReSplitFrom(rest, 1, <<>>)
         ELSE ReSplitFrom(s, i + 1, Append(cur, s[i]))

ReSplit(s) == ReSplitFrom(s, 1, <<>>)

\* str.split(): the maximal runs of non-whitespace characters
RECURSIVE StrSplitFrom(_, _)
StrSplitFrom(s, cur) ==
    IF s = <<>> THEN (IF cur = <<>> THEN <<>> ELSE <<cur>>)
    ELSE IF IsSpace(Head(s))
         THEN (IF cur = <<>> THEN <<>> ELSE <<cur>>) \o StrSplitFrom(Tail(s), <<>>)
         ELSE StrSplitFrom(Tail(s), Append(cur, Head(s)))

StrSplit(s) == StrSplitFrom(s, <<>>)

\* " ".join(parts)
RECURSIVE Join(_)
Join(parts) ==
    IF parts = <<>> THEN <<>>
    ELSE IF Len(parts) = 1 THEN parts[1]
    ELSE parts[1] \o <<" ">> \o Join(Tail(parts))

\* the concatenation of a list of lists
RECURSIVE Flatten(_)
Flatten(ss) == IF ss = <<>> THEN <<>> ELSE Head(ss) \o Flatten(Tail(ss))

(***************************************************************************)
(* split_sentences                                                         *)
(***************************************************************************)
\* mutant: line 8 without .strip()
NormalizeTextNoStrip(text) == CollapseWhitespace(text)

\* line 8
NormalizeText(text) == CollapseWhitespace(Strip(text))

split_sentences(text) ==
    LET t == NormalizeText(text)
    IN  IF t = <<>> THEN <<>> ELSE ReSplit(t)


(***************************************************************************)
(* State.                                                                  *)
(*   args        the parsed command line (main, lines 53-60)               *)
(*   files       the readable files: path -> content                       *)
(*   pc          the position in main / chunk_text                         *)
(*   text        main's local text, chunk_text's parameter                 *)
(*   sentences, idx, chunks, current, word_count                           *)
(*               chunk_text's locals; idx is the position of the for loop  *)
(*   dirs        the directories that exist                                *)
(*   fs          the files written: path -> content                        *)
(*   wi          the index of main's writing loop                          *)
(*   stdout      what main printed                                         *)
(*   exc         "" or the exception that ended the process                *)
(* History variables (not program state):                                  *)
(*   current_ix  the indices in sentences of the elements of current       *)
(*   srcs        for each element of chunks, where it was appended:        *)
(*               kind "flush" (line 23) or "window" (line 35), the indices *)
(*               of the sentences it was built from, and for a window the  *)
(*               loop variable i of line 32                                *)
(*   written     the paths opened for writing, in order                    *)
(***************************************************************************)
VARIABLES args, files, pc, text, sentences, idx, chunks, current, word_count,
          dirs, fs, wi, stdout, exc, current_ix, srcs, written

vars == <<args, files, pc, text, sentences, idx, chunks, current, word_count,
          dirs, fs, wi, stdout, exc, current_ix, srcs, written>>

(***************************************************************************)
(* chunk_text                                                              *)
(***************************************************************************)
\* the locals of chunk_text that the loop body reads and writes
Packer == [chunks |-> chunks, current |-> current, word_count |-> word_count,
           current_ix |-> current_ix, srcs |-> srcs, raised |-> FALSE]

\* lines 16-18
EmptyPacker == [chunks |-> <<>>, current |-> <<>>, word_count |-> 0,
                current_ix |-> <<>>, srcs |-> <<>>, raised |-> FALSE]

\* mutant: flush() without line 24, the accumulator is not emptied
flushKeepsCurrent(st) ==
    IF st.current # <<>>
    THEN [st EXCEPT
            !.chunks = Append(@, Strip(Join(st.current))),
            !.srcs = Append(@, [kind |-> "flush", sents |-> st.current_ix,
                                i |-> 0]),
            !.word_count = 0]
    ELSE [st EXCEPT !.word_count = 0]

\* flush(), lines 20-25
flush(st) ==
    LET emptied == [st EXCEPT !.current = <<>>, !.current_ix = <<>>,
                              !.word_count = 0]
    IN  IF st.current # <<>>
        THEN [emptied EXCEPT
                !.chunks = Append(@, Strip(Join(st.current))),
                !.srcs = Append(@, [kind |-> "flush", sents |-> st.current_ix,
                                    i |-> 0])]
        ELSE emptied

\* range(0, stop, step) for step > 0, from the value i on
RECURSIVE RangeFrom(_, _, _)
RangeFrom(i, stop, step) ==
    IF i >= stop THEN <<>> ELSE <<i>> \o RangeFrom(i + step, stop, step)

\* range(0, stop, step): a negative step from 0 up to stop >= 0 is empty
\* (step = 0 raises ValueError, see RangeRaises)
Range0(stop, step) == IF step > 0 THEN RangeFrom(0, stop, step) ELSE <<>>

RangeRaises(step) == step = 0

\* mutant: words[i:i + max_words + 1]
SliceOverlong(words, i, max_words) ==
    SubSeq(words, i + 1, Min(i + max_words + 1, Len(words)))

\* words[i:i + max_words] for 0 <= i < len(words) and max_words > 0
Slice(words, i, max_words) ==
    SubSeq(words, i + 1, Min(i + max_words, Len(words)))

\* lines 32-35: the windows of one oversized sentence, appended to chunks
RECURSIVE AppendWindows(_, _, _, _, _)
AppendWindows(st, words, j, is, max_words) ==
    IF is = <<>> THEN st
    ELSE LET part == Strip(Join(Slice(words, Head(is), max_words)))
             st1 == IF part # <<>>
                    THEN [st EXCEPT
                            !.chunks = Append(@, part),
                            !.srcs = Append(@, [kind |-> "window",
                                                sents |-> <<j>>,
                                                i |-> Head(is)])]
                    ELSE st
         IN  AppendWindows(st1, words, j, Tail(is), max_words)

\* mutant: lines 29-36 without the flush of lines 30-31
SplitOversizedNoFlush(st, words, j, max_words) ==
    IF RangeRaises(max_words)
    THEN [st EXCEPT !.raised = TRUE]
    ELSE AppendWindows(st, words, j, Range0(Len(words), max_words), max_words)

\* lines 29-36: the sentence has more than max_words words
SplitOversized(st, words, j, max_words) ==
    LET st1 == IF st.current # <<>> THEN flush(st) ELSE st
    IN  IF RangeRaises(max_words)
        THEN [st1 EXCEPT !.raised = TRUE]
        ELSE AppendWindows(st1, words, j, Range0(Len(words), max_words),
                           max_words)

\* mutant: lines 39-42 flushing only once min_words is reached
OverflowFlushOnlyAtMin(st, min_words) ==
    IF st.word_count >= min_words THEN flush(st) ELSE st

\* lines 39-42: both branches of the min_words test flush
OverflowFlush(st, min_words) ==
    IF st.word_count >= min_words THEN flush(st) ELSE flush(st)

\* mutant: line 38 testing word_count alone
PackIgnoresSentence(st, sentence, words, j, min_words, max_words) ==
    LET st1 == IF st.word_count > max_words
               THEN OverflowFlush(st, min_words)
               ELSE st
    IN  [st1 EXCEPT !.current = Append(@, sentence),
                    !.current_ix = Append(@, j),
                    !.word_count = @ + Len(words)]

\* mutant: line 38 with >= for >
PackFlushesOnExactFill(st, sentence, words, j, min_words, max_words) ==
    LET st1 == IF st.word_count + Len(words) >= max_words
               THEN OverflowFlush(st, min_words)
               ELSE st
    IN  [st1 EXCEPT !.current = Append(@, sentence),
                    !.current_ix = Append(@, j),
                    !.word_count = @ + Len(words)]

\* lines 38-44
Pack(st, sentence, words, j, min_words, max_words) ==
    LET st1 == IF st.word_count + Len(words) > max_words
               THEN OverflowFlush(st, min_words)
               ELSE st
    IN  [st1 EXCEPT !.current = Append(@, sentence),
                    !.current_ix = Append(@, j),
                    !.word_count = @ + Len(words)]

\* lines 28-44: the body of the for loop for sentences[j]
LoopBody(st, sentence, j, min_words, max_words) ==
    LET words == StrSplit(sentence)
    IN  IF Len(words) > max_words
        THEN SplitOversized(st, words, j, max_words)
        ELSE Pack(st, sentence, words, j, min_words, max_words)

\* lines 46-47
FinalFlush(st) == IF st.current # <<>> THEN flush(st) ELSE st

\* chunk_text as a function: the loop from sentence j on
RECURSIVE LoopFrom(_, _, _, _, _)
LoopFrom(st, sents, j, min_words, max_words) ==
    IF st.raised THEN st
    ELSE IF j > Len(sents) THEN FinalFlush(st)
    ELSE LoopFrom(LoopBody(st, sents[j], j, min_words, max_words),
                  sents, j + 1, min_words, max_words)

\* chunk_text(text, min_words, max_words): [raised, chunks]
chunk_text(t, min_words, max_words) ==
    LET st == LoopFrom(EmptyPacker, split_sentences(t), 1, min_words, max_words)
    IN  [raised |-> st.raised, chunks |-> IF st.raised THEN <<>> ELSE st.chunks]

(***************************************************************************)
(* main: paths and names                                                   *)
(***************************************************************************)
Digit == <<"1", "2", "3", "4", "5", "6", "7", "8", "9">>

\* format(i, "d") for i >= 0
RECURSIVE Decimal(_)
Decimal(i) ==
    LET d == IF i % 10 = 0 THEN "0" ELSE Digit[i % 10]
    IN  IF i < 10 THEN <<d>> ELSE Append(Decimal(i \div 10), d)

\* mutant: f"{i:d}", no padding
FormatUnpadded(i) == Decimal(i)

\* f"{i:02d}": the decimal digits, filled with zeros on the left to width 2
Format02d(i) ==
    LET d == Decimal(i)
    IN  IF Len(d) < 2 THEN <<"0">> \o d ELSE d

\* f"{prefix}_part_{i:02d}.txt", lines 75 and 80
PartName(prefix, i) ==
    prefix \o <<"_", "p", "a", "r", "t", "_">> \o Format02d(i)
           \o <<".", "t", "x", "t">>

\* os.path.join(a, b) of posixpath
PathJoin(a, b) ==
    IF b # <<>> /\ Head(b) = "/" THEN b
    ELSE IF a = <<>> \/ a[Len(a)] = "/" THEN a \o b
    ELSE a \o <<"/">> \o b

PartPath(i) == PathJoin(args.out_dir, PartName(args.prefix, i))

\* "\n".join(lines)
RECURSIVE JoinLines(_)
JoinLines(lines) ==
    IF lines = <<>> THEN <<>>
    ELSE IF Len(lines) = 1 THEN lines[1]
    ELSE lines[1] \o <<"\n">> \o JoinLines(Tail(lines))

\* Python truth value of an optional str argument: None and "" are false
Truthy(opt) == opt.given /\ opt.val # <<>>

(***************************************************************************)
(* Inputs.                                                                 *)
(***************************************************************************)
Absent == [given |-> FALSE, val |-> <<>>]
Given(s) == [given |-> TRUE, val |-> s]

\* the words the generated texts are made of
Tokens == {<<"a">>, <<"b", ".">>, <<"c", "?", "d">>}

TokenSeqs(n) == UNION {[1..k -> Tokens] : k \in 0..n}

\* a text: its words with sep between them, lead before and trail after
RECURSIVE JoinWith(_, _)
JoinWith(parts, sep) ==
    IF parts = <<>> THEN <<>>
    ELSE IF Len(parts) = 1 THEN parts[1]
    ELSE parts[1] \o sep \o JoinWith(Tail(parts), sep)

Render(toks, style) == style.lead \o JoinWith(toks, style.sep) \o style.trail

Styles == {[lead |-> <<>>, sep |-> <<" ">>, trail |-> <<>>],
           [lead |-> <<"\n">>, sep |-> <<" ", "\n">>, trail |-> <<"\t", " ">>]}

Texts == {Render(toks, st) : toks \in TokenSeqs(MaxToks), st \in Styles}

\* texts of many one-word sentences
LongTexts == {JoinWith([k \in 1..n |-> <<"b", "!">>], <<" ">>) :
                 n \in (MaxToks + 1)..MaxFiles}

MinValues == 0..MaxMin
MaxValues == 0..MaxMax

OutDir == <<"o">>
Prefix == <<"v">>
InputPath == <<"f">>
EmptyPath == <<"e">>
InputFiles == [p \in {InputPath, EmptyPath} |->
                 IF p = InputPath THEN <<"a", " ", "b", ".", "\n", "a">> ELSE <<>>]

Args(input_path, txt, out_dir, min_words, max_words) ==
    [input_path |-> input_path, text |-> txt, out_dir |-> out_dir,
     prefix |-> Prefix, min_words |-> min_words, max_words |-> max_words]

\* --text with every generated text and every configuration
TextRuns == {Args(Absent, Given(t), OutDir, mn, mx) :
                t \in Texts, mn \in MinValues, mx \in MaxValues}

\* every way of giving or omitting --input and --text
UsageRuns == {Args(ip, tx, od, 1, 2) :
                ip \in {Absent, Given(<<>>), Given(InputPath), Given(EmptyPath)},
                tx \in {Absent, Given(<<>>), Given(<<"a", ".", " ", "b">>)},
                od \in {OutDir, OutDir \o <<"/">>}}

\* many chunks
LongRuns == {Args(Absent, Given(t), OutDir, 1, 1) : t \in LongTexts}

\* short texts over every terminal mark, alone, ending a word and inside one
PunctTokens == {<<"a">>, <<"b", ".">>, <<"c", "!">>, <<"d", "?">>,
                <<"e", ".", "f">>, <<".">>}

PunctTexts == {Render(toks, st) :
                 toks \in UNION {[1..k -> PunctTokens] : k \in 0..MaxSplitToks},
                 st \in Styles}

PunctRuns == {Args(Absent, Given(t), OutDir, 1, 2) : t \in PunctTexts}

\* a negative --max
NegativeRuns == {Args(Absent, Given(t), OutDir, mn, 0 - 1) :
                   t \in {<<"a", " ", "b", ".", " ", "a">>}, mn \in MinValues}

Init ==
    /\ args \in TextRuns \cup UsageRuns \cup LongRuns \cup NegativeRuns
                 \cup PunctRuns
    /\ files = InputFiles
    /\ pc = "main"
    /\ text = <<>>
    /\ sentences = <<>>
    /\ idx = 1
    /\ chunks = <<>>
    /\ current = <<>>
    /\ word_count = 0
    /\ dirs \in IF args \in UsageRuns \cup LongRuns
                THEN {{}, {args.out_dir}}
                ELSE {{}}
    /\ fs = <<>>
    /\ wi = 1
    /\ stdout = <<>>
    /\ exc = ""
    /\ current_ix = <<>>
    /\ srcs = <<>>
    /\ written = <<>>

(***************************************************************************)
(* main, lines 62-69                                                       *)
(***************************************************************************)
chunkVars == <<sentences, idx, chunks, current, word_count, current_ix, srcs>>
outVars == <<dirs, fs, wi, stdout, written>>

\* lines 62-63
UsageError ==
    /\ pc = "main"
    /\ ~Truthy(args.input_path) /\ ~Truthy(args.text)
    /\ pc' = "exit"
    /\ exc' = "SystemExit: Provide --input or --text"
    /\ UNCHANGED <<args, files, text, chunkVars, outVars>>

\* lines 65-67
ReadInput ==
    /\ pc = "main"
    /\ Truthy(args.input_path)
    /\ args.input_path.val \in DOMAIN files
    /\ text' = files[args.input_path.val]
    /\ pc' = "chunk_text"
    /\ UNCHANGED <<args, files, exc, chunkVars, outVars>>

\* lines 68-69
InlineText ==
    /\ pc = "main"
    /\ ~Truthy(args.input_path) /\ Truthy(args.text)
    /\ text' = args.text.val
    /\ pc' = "chunk_text"
    /\ UNCHANGED <<args, files, exc, chunkVars, outVars>>

(***************************************************************************)
(* chunk_text, called at line 71                                           *)
(***************************************************************************)
SetPacker(st) ==
    /\ chunks' = st.chunks
    /\ current' = st.current
    /\ word_count' = st.word_count
    /\ current_ix' = st.current_ix
    /\ srcs' = st.srcs

\* lines 15-18
ChunkEnter ==
    /\ pc = "chunk_text"
    /\ sentences' = split_sentences(text)
    /\ idx' = 1
    /\ SetPacker(EmptyPacker)
    /\ pc' = "loop"
    /\ UNCHANGED <<args, files, text, exc, outVars>>

Words(j) == StrSplit(sentences[j])

LoopStep ==
    LET st == LoopBody(Packer, sentences[idx], idx, args.min_words, args.max_words)
    IN  /\ SetPacker(st)
        /\ idx' = idx + 1
        /\ pc' = IF st.raised THEN "exit" ELSE "loop"
        /\ exc' = IF st.raised THEN "ValueError" ELSE exc
        /\ UNCHANGED <<args, files, text, sentences, outVars>>

\* lines 29-36, range() accepting its step
Oversized ==
    /\ pc = "loop" /\ idx <= Len(sentences)
    /\ Len(Words(idx)) > args.max_words
    /\ ~RangeRaises(args.max_words)
    /\ LoopStep

\* line 32 with max_words = 0: range() arg 3 must not be zero
OversizedRaises ==
    /\ pc = "loop" /\ idx <= Len(sentences)
    /\ Len(Words(idx)) > args.max_words
    /\ RangeRaises(args.max_words)
    /\ LoopStep

\* lines 38-44, the overflow test true
Overflow ==
    /\ pc = "loop" /\ idx <= Len(sentences)
    /\ Len(Words(idx)) <= args.max_words
    /\ word_count + Len(Words(idx)) > args.max_words
    /\ LoopStep

\* lines 38-44, the overflow test false
Accumulate ==
    /\ pc = "loop" /\ idx <= Len(sentences)
    /\ Len(Words(idx)) <= args.max_words
    /\ word_count + Len(Words(idx)) <= args.max_words
    /\ LoopStep

\* lines 46-49 and the assignment of line 71
ChunkReturn ==
    /\ pc = "loop" /\ idx > Len(sentences)
    /\ SetPacker(FinalFlush(Packer))
    /\ pc' = "makedirs"
    /\ UNCHANGED <<args, files, text, sentences, idx, exc, outVars>>

(***************************************************************************)
(* main, lines 72-80                                                       *)
(***************************************************************************)
\* line 72
MakeDirs ==
    /\ pc = "makedirs"
    /\ dirs' = dirs \cup {args.out_dir}
    /\ wi' = 1
    /\ pc' = "write"
    /\ UNCHANGED <<args, files, text, chunkVars, fs, stdout, written, exc>>

\* open(path, "w").write(data): the file is created or replaced
WriteFile(files_, path, data) ==
    [q \in DOMAIN files_ \cup {path} |-> IF q = path THEN data ELSE files_[q]]

\* lines 74-78, one iteration
WriteChunk ==
    /\ pc = "write" /\ wi <= Len(chunks)
    /\ fs' = WriteFile(fs, PartPath(wi), Strip(chunks[wi]) \o <<"\n">>)
    /\ written' = Append(written, PartPath(wi))
    /\ wi' = wi + 1
    /\ UNCHANGED <<args, files, pc, text, chunkVars, dirs, stdout, exc>>

\* the paths of line 80
PrintedPaths == [i \in 1..Len(chunks) |-> PartPath(i)]

\* line 80: print() ends its output with a newline
PrintPaths ==
    /\ pc = "write" /\ wi > Len(chunks)
    /\ stdout' = JoinLines(PrintedPaths) \o <<"\n">>
    /\ pc' = "done"
    /\ UNCHANGED <<args, files, text, chunkVars, dirs, fs, wi, written, exc>>

Next ==
    \/ UsageError
    \/ ReadInput
    \/ InlineText
    \/ ChunkEnter
    \/ Oversized
    \/ OversizedRaises
    \/ Overflow
    \/ Accumulate
    \/ ChunkReturn
    \/ MakeDirs
    \/ WriteChunk
    \/ PrintPaths

Spec == Init /\ [][Next]_vars

(***************************************************************************)
(* Vocabulary of the properties.                                           *)
(***************************************************************************)
\* the configuration the specification calls valid
ValidConfig == 1 <= args.min_words /\ args.min_words <= args.max_words

\* chunk_text has been entered / has returned its chunks to main
Entered == pc \in {"loop", "makedirs", "write", "done"} \/ exc = "ValueError"
Returned == pc \in {"makedirs", "write", "done"}

\* main ended at line 63
UsageExit == exc = "SystemExit: Provide --input or --text"

WordCount(s) == Len(StrSplit(s))

\* the words of the chunks, chunk after chunk
ChunkWords == Flatten([k \in 1..Len(chunks) |-> StrSplit(chunks[k])])

IsFlushed(k) == srcs[k].kind = "flush"
IsWindow(k) == srcs[k].kind = "window"

\* sentence j has been through the loop body
Processed(j) == j \in 1..Len(sentences) /\ (j < idx \/ Returned)

IsOversized(j) == Len(Words(j)) > args.max_words

CeilDiv(a, b) == (a + b - 1) \div b

(***************************************************************************)
(* C1  Lossless repacking: under a configuration 1 <= min_words <=         *)
(* max_words, the words of the returned chunks, concatenated in output     *)
(* order, are exactly the whitespace-delimited words of the input text.    *)
(***************************************************************************)
Lossless ==
    (Returned /\ ValidConfig) => ChunkWords = StrSplit(text)

\* a run that both packed sentences and hard-split one has returned
LosslessWitness ==
    /\ Returned /\ ValidConfig
    /\ \E k \in 1..Len(chunks) : IsWindow(k)
    /\ \E k \in 1..Len(chunks) : IsFlushed(k) /\ Len(srcs[k].sents) >= 2
    /\ ChunkWords = StrSplit(text)

(***************************************************************************)
(* C2  Bound respected: under a configuration 1 <= min_words <= max_words, *)
(* the accumulator's word_count never exceeds max_words, it is the number  *)
(* of words accumulated, and every chunk flushed from the accumulator has  *)
(* at most max_words words.                                                *)
(***************************************************************************)
BoundRespected ==
    ValidConfig =>
        /\ word_count <= args.max_words
        /\ word_count = WordCount(Join(current))
        /\ \A k \in 1..Len(chunks) :
              IsFlushed(k) => WordCount(chunks[k]) <= args.max_words

\* a flushed chunk that fills max_words exactly with two sentences or more
BoundRespectedWitness ==
    /\ ValidConfig
    /\ \E k \in 1..Len(chunks) :
          /\ IsFlushed(k) /\ Len(srcs[k].sents) >= 2
          /\ WordCount(chunks[k]) = args.max_words
    /\ \E k \in 1..Len(chunks) :
          IsFlushed(k) /\ WordCount(chunks[k]) < args.max_words

(***************************************************************************)
(* C3  Oversized-window sizing: with max_words >= 1, a sentence of         *)
(* w > max_words words contributes exactly ceil(w / max_words)             *)
(* consecutive chunks; the t-th is the contiguous window of its words      *)
(* from (t-1)*max_words+1 on, of max_words words, except the last, which   *)
(* has w mod max_words words, or max_words when that is 0.                 *)
(***************************************************************************)
WindowsOf(j) == {k \in 1..Len(chunks) : j \in {srcs[k].sents[x] : x \in 1..Len(srcs[k].sents)}}

WindowSizing(j) ==
    LET words == Words(j)
        w == Len(words)
        m == args.max_words
        n == CeilDiv(w, m)
        ks == WindowsOf(j)
    IN  /\ Cardinality(ks) = n
        /\ \E p \in 1..Len(chunks) :
              /\ ks = p..(p + n - 1)
              /\ \A t \in 1..n :
                    LET c == chunks[p + t - 1]
                        lo == (t - 1) * m + 1
                        size == IF t < n THEN m
                                ELSE IF w % m = 0 THEN m ELSE w % m
                    IN  /\ WordCount(c) = size
                        /\ c = Join(SubSeq(words, lo, lo + size - 1))

OversizedWindowSizing ==
    args.max_words >= 1 =>
        \A j \in 1..Len(sentences) :
            (Processed(j) /\ IsOversized(j)) => WindowSizing(j)

\* a sentence hard-split into three windows or more, the last one short
\* (the exact multiples are the sentences split with max_words = 1)
OversizedWindowSizingWitness ==
    /\ args.max_words >= 2 /\ Returned
    /\ \E j \in 1..Len(sentences) :
          /\ IsOversized(j) /\ Len(Words(j)) % args.max_words # 0
          /\ CeilDiv(Len(Words(j)), args.max_words) >= 3
          /\ WindowSizing(j)

(***************************************************************************)
(* C4  Non-merging of oversized output: under a valid configuration,       *)
(* every chunk that holds a word of a sentence with more than max_words    *)
(* words is a window of that sentence alone; every flushed chunk is the    *)
(* join of whole sentences, none of them oversized; every earlier sentence *)
(* is in an earlier chunk than the first window; and right after the       *)
(* oversized sentence the accumulator is empty.                            *)
(***************************************************************************)
NonMerging ==
    ValidConfig =>
        /\ \A k \in 1..Len(chunks) :
              /\ IsWindow(k) =>
                    /\ Len(srcs[k].sents) = 1
                    /\ IsOversized(srcs[k].sents[1])
                    /\ chunks[k] = Join(Slice(Words(srcs[k].sents[1]), srcs[k].i,
                                              args.max_words))
                    /\ \A j \in 1..(srcs[k].sents[1] - 1) :
                          \E k2 \in 1..(k - 1) : k2 \in WindowsOf(j)
              /\ IsFlushed(k) =>
                    /\ chunks[k] = Join([x \in 1..Len(srcs[k].sents) |->
                                            sentences[srcs[k].sents[x]]])
                    /\ \A x \in 1..Len(srcs[k].sents) :
                          ~IsOversized(srcs[k].sents[x])
        /\ (pc = "loop" /\ idx > 1 /\ IsOversized(idx - 1)) =>
              (current = <<>> /\ word_count = 0)

\* the short last window of an oversized sentence is followed by a sentence
\* that would have fitted with it, after an earlier sentence was flushed
NonMergingWitness ==
    /\ ValidConfig /\ Returned
    /\ \E k \in 2..(Len(chunks) - 1) :
          /\ IsWindow(k) /\ IsFlushed(k + 1)
          /\ WordCount(chunks[k]) + WordCount(chunks[k + 1]) <= args.max_words
    /\ \E k \in 1..(Len(chunks) - 1) : IsFlushed(k) /\ IsWindow(k + 1)

(***************************************************************************)
(* C5  Configuration error: a configuration with max_words < min_words,    *)
(* min_words <= 0 or max_words <= 0 is rejected before chunking begins:    *)
(* chunk_text is never entered with it, os.makedirs is never reached and   *)
(* no chunk file is written.                                               *)
(***************************************************************************)
ConfigErrorRejected ==
    ~ValidConfig =>
        /\ ~Entered
        /\ pc \notin {"write", "done"}
        /\ fs = <<>>

(***************************************************************************)
(* C6  Usage error: main exits with 'Provide --input or --text', having    *)
(* read no file, created no directory and written no chunk, if and only if *)
(* neither --text (with any value, the empty string included) nor a        *)
(* source file path was given.                                             *)
(***************************************************************************)
UsageErrorIffNothingGiven ==
    /\ pc # "main" =>
          (UsageExit <=> (~args.text.given /\ ~Truthy(args.input_path)))
    /\ UsageExit => (pc = "exit" /\ text = <<>> /\ fs = <<>> /\ written = <<>>)

(***************************************************************************)
(* C7  Totality: under a configuration 1 <= min_words <= max_words,        *)
(* chunk_text never raises (the process exits only with the usage error,   *)
(* and the loop body of the next sentence does not raise), its loop index  *)
(* never passes the end of the sentence list, and every chunk has at least *)
(* one word and no leading or trailing whitespace; a text without words    *)
(* returns no chunk.                                                       *)
(***************************************************************************)
WellFormed(c) ==
    /\ c # <<>>
    /\ WordCount(c) >= 1
    /\ ~IsSpace(c[1]) /\ ~IsSpace(c[Len(c)])

Totality ==
    ValidConfig =>
        /\ exc # "ValueError"
        /\ pc = "exit" => UsageExit
        /\ idx <= Len(sentences) + 1
        /\ (pc = "loop" /\ idx <= Len(sentences)) =>
              ~LoopBody(Packer, sentences[idx], idx, args.min_words,
                        args.max_words).raised
        /\ \A k \in 1..Len(chunks) : WellFormed(chunks[k])
        /\ (Returned /\ StrSplit(text) = <<>>) => chunks = <<>>

\* chunk_text has returned from a text of surrounding and repeated
\* whitespace with several chunks
TotalityWitness ==
    /\ ValidConfig /\ Returned
    /\ text # <<>> /\ IsSpace(text[1]) /\ IsSpace(text[Len(text)])
    /\ Len(chunks) >= 3
    /\ \A k \in 1..Len(chunks) : WellFormed(chunks[k])

(***************************************************************************)
(* C8  Persistence writer: when main is done with k chunks, the target     *)
(* directory exists and exactly k files were written; the i-th path is     *)
(* <out_dir>/<prefix>_part_<D>.txt where D is the decimal numeral of i     *)
(* with zeros on the left up to two digits, and the file holds the i-th    *)
(* chunk and one newline; the printed lines are those paths in order.      *)
(***************************************************************************)
DigitValue(c) ==
    CASE c = "0" -> 0 [] c = "1" -> 1 [] c = "2" -> 2 [] c = "3" -> 3
      [] c = "4" -> 4 [] c = "5" -> 5 [] c = "6" -> 6 [] c = "7" -> 7
      [] c = "8" -> 8 [] c = "9" -> 9 [] OTHER -> 0 - 1000

RECURSIVE NumeralValue(_)
NumeralValue(d) ==
    IF d = <<>> THEN 0
    ELSE 10 * NumeralValue(SubSeq(d, 1, Len(d) - 1)) + DigitValue(d[Len(d)])

\* d is i written in decimal, zero-padded to at least 2 digits
IsPadded2(d, i) ==
    /\ Len(d) >= 2
    /\ NumeralValue(d) = i
    /\ Len(d) > 2 => d[1] # "0"

\* path is <dir>/<prefix>_part_<D>.txt with D the padded numeral of i
IsPartPath(path, i) ==
    LET dir == IF args.out_dir[Len(args.out_dir)] = "/"
               THEN args.out_dir ELSE args.out_dir \o <<"/">>
        head == dir \o args.prefix \o <<"_", "p", "a", "r", "t", "_">>
        tail == <<".", "t", "x", "t">>
        n == Len(path) - Len(head) - Len(tail)
    IN  /\ n >= 2
        /\ SubSeq(path, 1, Len(head)) = head
        /\ SubSeq(path, Len(path) - Len(tail) + 1, Len(path)) = tail
        /\ IsPadded2(SubSeq(path, Len(head) + 1, Len(head) + n), i)

\* the lines of an output: each ends with "\n"
RECURSIVE LinesFrom(_, _)
LinesFrom(s, cur) ==
    IF s = <<>> THEN (IF cur = <<>> THEN <<>> ELSE <<cur>>)
    ELSE IF Head(s) = "\n" THEN <<cur>> \o LinesFrom(Tail(s), <<>>)
    ELSE LinesFrom(Tail(s), Append(cur, Head(s)))

\* the paths reported on stdout: its non-empty lines
ReportedPaths == SelectSeq(LinesFrom(stdout, <<>>), LAMBDA l : l # <<>>)

PersistenceWriter ==
    /\ pc \in {"main", "chunk_text", "loop", "makedirs", "exit"} =>
          (fs = <<>> /\ written = <<>> /\ stdout = <<>>)
    /\ pc \in {"write", "done"} =>
          /\ args.out_dir \in dirs
          /\ Len(written) = wi - 1
          /\ Cardinality(DOMAIN fs) = Len(written)
          /\ DOMAIN fs = {written[i] : i \in 1..Len(written)}
          /\ \A i \in 1..Len(written) :
                /\ IsPartPath(written[i], i)
                /\ fs[written[i]] = chunks[i] \o <<"\n">>
    /\ pc = "done" =>
          /\ Len(written) = Len(chunks)
          /\ ReportedPaths = written

\* ten files or more (two-digit indices without padding) were written and
\* reported
PersistenceWriterWitness ==
    /\ pc = "done"
    /\ Len(chunks) >= 10
    /\ ReportedPaths = written
    /\ Cardinality(DOMAIN fs) = Len(chunks)

(***************************************************************************)
(* C9  Greedy packing with a strict overflow test: a loop step for a       *)
(* sentence of w <= max_words words appends it to the accumulator and      *)
(* emits nothing when word_count + w <= max_words (equality included), and *)
(* flushes the accumulator and restarts it with that sentence alone only   *)
(* when word_count + w > max_words.  Hence for two consecutive chunks both *)
(* flushed from the accumulator, the words of the first plus the words of  *)
(* the first sentence of the second exceed max_words.                      *)
(***************************************************************************)
GreedyStep ==
    (pc = "loop" /\ idx <= Len(sentences) /\ ~IsOversized(idx)) =>
        LET w == Len(Words(idx))
        IN  IF word_count + w <= args.max_words
            THEN /\ current' = Append(current, sentences[idx])
                 /\ word_count' = word_count + w
                 /\ chunks' = chunks
            ELSE /\ current' = <<sentences[idx]>>
                 /\ word_count' = w
                 /\ chunks' = Append(chunks, Join(current))

FlushGap ==
    \A k \in 1..(Len(chunks) - 1) :
        (IsFlushed(k) /\ IsFlushed(k + 1)) =>
            WordCount(chunks[k]) + Len(Words(srcs[k + 1].sents[1]))
                > args.max_words

GreedyPacking == [][GreedyStep /\ FlushGap']_vars

\* an accumulator filled exactly by its second sentence or a later one,
\* after two consecutive flushed chunks
GreedyPackingWitness ==
    /\ pc = "loop"
    /\ Len(current) >= 2 /\ word_count = args.max_words
    /\ \E k \in 1..(Len(chunks) - 1) : IsFlushed(k) /\ IsFlushed(k + 1)
    /\ FlushGap

(***************************************************************************)
(* C10  min_words is inert: with max_words >= 1, the chunks chunk_text     *)
(* returns are those it returns for the same text and max_words with any   *)
(* other min_words; on overflow the accumulator is flushed also when its   *)
(* word count is below min_words.                                          *)
(***************************************************************************)
OtherMinValues == (0 - 1)..(MaxMax + 1)

MinWordsInert ==
    (pc = "makedirs" /\ args.max_words >= 1) =>
        \A m \in OtherMinValues :
            chunk_text(text, m, args.max_words) =
                [raised |-> FALSE, chunks |-> chunks]

\* an overflow flushed a chunk of fewer than min_words words
MinWordsInertWitness ==
    /\ pc = "makedirs" /\ ValidConfig
    /\ \E k \in 1..(Len(chunks) - 1) :
          /\ IsFlushed(k) /\ IsFlushed(k + 1)
          /\ WordCount(chunks[k]) < args.min_words

(***************************************************************************)
(* C11  Sentence Splitter: once chunk_text has called split_sentences, if  *)
(* the normalized text (single spaces between words, none around) is empty *)
(* there is no sentence; otherwise the sentences are non-empty, every one  *)
(* but the last ends with '.', '!' or '?', none contains such a mark       *)
(* followed by whitespace, and joined with single spaces they are the      *)
(* normalized text.                                                        *)
(***************************************************************************)
Marks == {".", "!", "?"}

\* n is the whitespace-normalized form of t
IsNormalizedOf(n, t) ==
    /\ \A p \in 1..Len(n) : IsSpace(n[p]) => n[p] = " "
    /\ \A p \in 1..(Len(n) - 1) : ~(n[p] = " " /\ n[p + 1] = " ")
    /\ n # <<>> => (n[1] # " " /\ n[Len(n)] # " ")
    /\ n = Join(StrSplit(t))

HasBoundary(s) ==
    \E p \in 1..(Len(s) - 1) : s[p] \in Marks /\ IsSpace(s[p + 1])

SentenceSplitter ==
    Entered =>
        LET n == NormalizeText(text)
        IN  /\ IsNormalizedOf(n, text)
            /\ IF n = <<>>
               THEN sentences = <<>>
               ELSE /\ Len(sentences) >= 1
                    /\ \A j \in 1..Len(sentences) :
                          /\ sentences[j] # <<>>
                          /\ ~HasBoundary(sentences[j])
                    /\ \A j \in 1..(Len(sentences) - 1) :
                          sentences[j][Len(sentences[j])] \in Marks
                    /\ Join(sentences) = n

\* a text with irregular whitespace split after a '?' and after another
\* mark, keeping a mark inside a word, its last sentence unterminated
SentenceSplitterWitness ==
    /\ Entered
    /\ text # NormalizeText(text)
    /\ Len(sentences) = 3
    /\ \E j \in 1..2 : sentences[j][Len(sentences[j])] = "?"
    /\ \E j \in 1..2 : sentences[j][Len(sentences[j])] # "?"
    /\ sentences[3][Len(sentences[3])] \notin Marks
    /\ \E p \in 1..Len(sentences[3]) : sentences[3][p] \in Marks
    /\ Join(sentences) = NormalizeText(text)

=============================================================================
